---- MODULE Spec2Model ----
(***************************************************************************)
(* Model of testmodule.py, the mercure test module: main() checks its      *)
(* arguments and folders, loads task.json, builds the settings, groups the *)
(* .dcm files of the input folder into series, and for every series writes *)
(* one filtered image per slice (process_image) and one SR (create_sr).    *)
(*                                                                         *)
(* File names and UIDs are sequences of one-character strings, so that     *)
(* str.endswith, str.split and string concatenation are computed.          *)
(* JSON values are records [t, n, m]: t is the JSON type, n the number /   *)
(* the length of a string or list, m the members of an object.             *)
(***************************************************************************)
EXTENDS Integers, Sequences, FiniteSets, TLC

\* Largest number of entries (besides task.json) in the input folder.
MaxFiles == 3

----------------------------------------------------------------------------
(* Strings                                                                 *)

Dcm == <<".", "d", "c", "m">>
Hash == "#"
TaskJsonName == <<"t", "a", "s", "k", ".", "j", "s", "o", "n">>

\* str.endswith(suf)
EndsWith(s, suf) ==
    /\ Len(s) >= Len(suf)
    /\ SubSeq(s, Len(s) - Len(suf) + 1, Len(s)) = suf

\* index of the first '#' of s, 0 when there is none
FirstHash(s) ==
    IF \E i \in 1..Len(s) : s[i] = Hash
    THEN CHOOSE i \in 1..Len(s) : s[i] = Hash /\ \A j \in 1..(i - 1) : s[j] # Hash
    ELSE 0

\* s.split("#", 1): a list of one element when s holds no '#', else of two
Split1(s) ==
    IF FirstHash(s) = 0 THEN <<s>>
    ELSE <<SubSeq(s, 1, FirstHash(s) - 1), SubSeq(s, FirstHash(s) + 1, Len(s))>>

Digits == <<"0", "1", "2", "3", "4", "5", "6", "7", "8", "9">>

\* generate_uid() that returns the same identifier on every call
GenerateUidConst(ctr) == <<"u", "0", "0">>

\* generate_uid(): the ctr-th fresh identifier, a string without '#'
GenerateUid(ctr) == <<"u", Digits[((ctr \div 10) % 10) + 1], Digits[(ctr % 10) + 1]>>

----------------------------------------------------------------------------
(* JSON values and dict operations                                         *)

NoMembers == [k \in {} |-> 0]
JNull == [t |-> "null", n |-> 0, m |-> NoMembers]
JNum(n) == [t |-> "num", n |-> n, m |-> NoMembers]
JStr(len) == [t |-> "str", n |-> len, m |-> NoMembers]
JList(len) == [t |-> "list", n |-> len, m |-> NoMembers]
JObj(m) == [t |-> "obj", n |-> 0, m |-> m]

IsDict(j) == j.t = "obj"

\* Python truth value of a loaded JSON value
Truthy(j) ==
    IF j.t = "obj" THEN DOMAIN j.m # {}
    ELSE IF j.t = "null" THEN FALSE
    ELSE j.n # 0

\* dict.get(key, default); j is a dict
Get(j, key, default) == IF key \in DOMAIN j.m THEN j.m[key] ELSE default

\* dict.update(s) raises unless s is a mapping or an empty iterable
\* (lists hold numbers only)
CanUpdate(s) == s.t = "obj" \/ (s.t \in {"list", "str"} /\ s.n = 0)

\* an update in which the keys already present keep their value
UpdateKeepOld(d, s) ==
    [k \in DOMAIN d \cup DOMAIN s.m |-> IF k \in DOMAIN d THEN d[k] ELSE s.m[k].n]

\* d after d.update(s)
Update(d, s) ==
    [k \in DOMAIN d \cup DOMAIN s.m |-> IF k \in DOMAIN s.m THEN s.m[k].n ELSE d[k]]

DefaultSigma == 7
DefaultOffset == 3000
DefaultSettings == [sigma |-> DefaultSigma, series_offset |-> DefaultOffset]

----------------------------------------------------------------------------
(* The environment: candidate folder entries and task.json contents        *)

Entry(name, isdir, sn, fault) ==
    [name |-> name, is_dir |-> isdir, SeriesNumber |-> sn, fault |-> fault]

\* fault: "none"; "corrupt" (dcmread, pixel_array or the filter raises);
\* "nostudy" (no StudyDate: only create_sr raises)
Candidates == <<
    Entry(<<"A", "#", "1">> \o Dcm, FALSE, 1, "none"),
    Entry(<<"A", "#", "2">> \o Dcm, FALSE, 2, "none"),
    Entry(<<"B", "#", "1">> \o Dcm, FALSE, 3, "none"),
    Entry(<<"B", "#", "2">> \o Dcm, FALSE, 4, "corrupt"),
    Entry(<<"A", "#", "3">> \o Dcm, TRUE, 0, "none"),
    Entry(<<"B", "#", "3", ".", "t", "x", "t">>, FALSE, 0, "none"),
    Entry(<<"A", "#", "1", "#", "2">> \o Dcm, FALSE, 5, "nostudy"),
    Entry(<<"C">> \o Dcm, FALSE, 6, "none") >>

TaskEntry == Entry(TaskJsonName, FALSE, 0, "none")

TaskFile(state, val) == [state |-> state, val |-> val]

SettingsObj(m) == JObj([process |-> JObj([settings |-> JObj(m)])])

TaskFiles == <<
    TaskFile("missing", JNull),
    TaskFile("unparsable", JNull),
    TaskFile("ok", JObj(NoMembers)),
    TaskFile("ok", JObj([process |-> JObj(NoMembers)])),
    TaskFile("ok", SettingsObj(NoMembers)),
    TaskFile("ok", SettingsObj([sigma |-> JNum(3)])),
    TaskFile("ok", SettingsObj([series_offset |-> JNum(1000)])),
    TaskFile("ok", SettingsObj([sigma |-> JNum(3), series_offset |-> JNum(1000),
                                foo |-> JNum(1)])),
    TaskFile("ok", JList(0)),
    TaskFile("ok", JObj([process |-> JStr(1)])),
    TaskFile("ok", JObj([process |-> JObj([other |-> JNum(1)])])),
    TaskFile("ok", JObj([process |-> JObj([settings |-> JNull])])),
    TaskFile("ok", JObj([other |-> JNum(1)])) >>

\* the discovery orders of os.scandir: sequences of distinct candidates
Listings ==
    UNION { { s \in [1..n -> 1..Len(Candidates)] :
                \A i, j \in 1..n : i # j => s[i] # s[j] } : n \in 0..MaxFiles }

----------------------------------------------------------------------------
VARIABLES
    argc,           \* number of positional arguments (len(sys.argv) - 1)
    in_exists,      \* Path(in_folder).exists()
    out_exists,     \* Path(out_folder).exists()
    taskjson,       \* the file task.json of the input folder
    dir,            \* entries of the input folder in os.scandir order
    pc,             \* position of main
    exit_status,    \* exit status of the process, read when pc = "done"
    error,          \* why the run ended: none, usage, path, descriptor, settings, file
    task,           \* main: task
    settings,       \* main: settings
    series,         \* main: series, an insertion-ordered dict as a sequence
    si,             \* index of the next entry of the scandir loop
    gi,             \* index of the current item of the series loop
    fi,             \* index of the current image_filename
    series_uid,     \* main: series_uid
    uidctr,         \* number of identifiers generate_uid has handed out
    out,            \* files of the output folder written by the run
    log             \* the writes of the run, in order

vars == <<argc, in_exists, out_exists, taskjson, dir, pc, exit_status, error,
          task, settings, series, si, gi, fi, series_uid, uidctr, out, log>>

env == <<argc, in_exists, out_exists, taskjson, dir>>

Init ==
    /\ argc \in 0..2
    /\ in_exists \in BOOLEAN
    /\ out_exists \in BOOLEAN
    /\ \E t \in 1..Len(TaskFiles), l \in Listings :
        /\ taskjson = TaskFiles[t]
        /\ dir = (IF TaskFiles[t].state = "missing" THEN <<>> ELSE <<TaskEntry>>)
                 \o [i \in 1..Len(l) |-> Candidates[l[i]]]
    \* without two arguments no folder is named; a folder that does not
    \* exist holds nothing
    /\ argc < 2 => ~in_exists /\ ~out_exists
    /\ ~in_exists => taskjson.state = "missing" /\ dir = <<>>
    /\ pc = "args"
    /\ exit_status = 0
    /\ error = "none"
    /\ task = JNull
    /\ settings = DefaultSettings
    /\ series = <<>>
    /\ si = 1
    /\ gi = 1
    /\ fi = 1
    /\ series_uid = <<>>
    /\ uidctr = 0
    /\ out = {}
    /\ log = <<>>

\* sys.exit(status), or an uncaught exception (status 1)
Exit(status, why) ==
    /\ pc' = "done"
    /\ exit_status' = status
    /\ error' = why

Continue(next) ==
    /\ pc' = next
    /\ UNCHANGED <<exit_status, error>>

----------------------------------------------------------------------------
(* main, lines 233-261                                                     *)

CheckArgs ==
    /\ pc = "args"
    /\ IF argc + 1 < 3 THEN Exit(1, "usage") ELSE Continue("paths")
    /\ UNCHANGED <<env, task, settings, series, si, gi, fi, series_uid, uidctr, out, log>>

\* the folder check written with 'and' in place of 'or'
CheckPathsAnd ==
    /\ pc = "paths"
    /\ IF ~in_exists /\ ~out_exists THEN Exit(1, "path") ELSE Continue("load")
    /\ UNCHANGED <<env, task, settings, series, si, gi, fi, series_uid, uidctr, out, log>>

CheckPaths ==
    /\ pc = "paths"
    /\ IF ~in_exists \/ ~out_exists THEN Exit(1, "path") ELSE Continue("load")
    /\ UNCHANGED <<env, task, settings, series, si, gi, fi, series_uid, uidctr, out, log>>

\* a load that falls back to an empty task when the file cannot be loaded
LoadTaskLenient ==
    /\ pc = "load"
    /\ task' = IF taskjson.state = "ok" THEN taskjson.val ELSE JObj(NoMembers)
    /\ Continue("settings")
    /\ UNCHANGED <<env, settings, series, si, gi, fi, series_uid, uidctr, out, log>>

LoadTask ==
    /\ pc = "load"
    /\ IF taskjson.state = "ok"
       THEN task' = taskjson.val /\ Continue("settings")
       ELSE task' = task /\ Exit(1, "descriptor")
    /\ UNCHANGED <<env, settings, series, si, gi, fi, series_uid, uidctr, out, log>>

\* lines 254-258; AttributeError / TypeError / ValueError are uncaught
LoadSettings ==
    /\ pc = "settings"
    /\ IF ~IsDict(task)
       THEN settings' = DefaultSettings /\ Exit(1, "settings")
       ELSE LET p == Get(task, "process", JStr(0)) IN
            IF ~Truthy(p)
            THEN settings' = DefaultSettings /\ Continue("scan")
            ELSE IF ~IsDict(p)
            THEN settings' = DefaultSettings /\ Exit(1, "settings")
            ELSE LET s == Get(p, "settings", JObj(NoMembers)) IN
                 IF CanUpdate(s)
                 THEN settings' = Update(DefaultSettings, s) /\ Continue("scan")
                 ELSE settings' = DefaultSettings /\ Exit(1, "settings")
    /\ UNCHANGED <<env, task, series, si, gi, fi, series_uid, uidctr, out, log>>

----------------------------------------------------------------------------
(* main, lines 266-275: the series dict                                    *)

\* the filter of the scandir loop without the directory test
ScanMatchesAnyKind(e) == EndsWith(e.name, Dcm)

\* line 268
ScanMatches(e) == EndsWith(e.name, Dcm) /\ ~e.is_dir

\* lines 270-275: series[seriesString].append(name), creating the list first
AddToSeries(sr, name) ==
    LET seriesString == Split1(name)[1] IN
    IF \E g \in 1..Len(sr) : sr[g].key = seriesString
    THEN [g \in 1..Len(sr) |->
            IF sr[g].key = seriesString
            THEN [sr[g] EXCEPT !.files = Append(@, name)]
            ELSE sr[g]]
    ELSE Append(sr, [key |-> seriesString, files |-> <<name>>])

ScanEntry ==
    /\ pc = "scan"
    /\ si <= Len(dir)
    /\ series' = IF ScanMatches(dir[si]) THEN AddToSeries(series, dir[si].name)
                 ELSE series
    /\ si' = si + 1
    /\ Continue("scan")
    /\ UNCHANGED <<env, task, settings, gi, fi, series_uid, uidctr, out, log>>

ScanDone ==
    /\ pc = "scan"
    /\ si > Len(dir)
    /\ Continue("loop")
    /\ UNCHANGED <<env, task, settings, series, si, gi, fi, series_uid, uidctr, out, log>>

----------------------------------------------------------------------------
(* process_image and create_sr                                             *)

\* pydicom.dcmread(Path(in_folder) / file): the entry of that name
ReadFile(file) == dir[CHOOSE i \in 1..Len(dir) : dir[i].name = file]

\* ds.save_as(path): the file of that name is created or replaced
SaveAs(o, rec) == {r \in o : r.name # rec.name} \cup {rec}

\* an output name built from the series part of the input name
ProcessOutNameSeriesPart(uid, file) == uid \o <<Hash>> \o Split1(file)[1]

\* line 200
ProcessOutName(uid, file) == uid \o <<Hash>> \o Split1(file)[2]

\* line 42
SROutName(uid, sop) == uid \o <<Hash>> \o sop \o Dcm

\* line 210
ImageSeriesNumber(ds, st) == ds.SeriesNumber + st.series_offset

\* the report's number taken from a record that already carries the offset
SRSeriesNumberTwice(ref_ds, st) == ref_ds.SeriesNumber + st.series_offset + st.series_offset

\* line 53
SRSeriesNumber(ref_ds, st) == ref_ds.SeriesNumber + st.series_offset

\* line 200 raises IndexError without '#'; 204 and 215-216 raise on a
\* corrupt file; 219 raises when the output folder is absent
ImageRaises(file) ==
    \/ Len(Split1(file)) < 2
    \/ ReadFile(file).fault = "corrupt"
    \/ ~out_exists

\* line 37 raises on an unreadable file, 62 without StudyDate, 188 when
\* the output folder is absent
SRRaises(file) ==
    \/ ReadFile(file).fault \in {"corrupt", "nostudy"}
    \/ ~out_exists

\* the last file of the group taken as reference
SRReferenceLast(files) == files[Len(files)]

\* line 289: series[item][0]
SRReference(files) == files[1]

----------------------------------------------------------------------------
(* main, lines 278-289: the series loop                                    *)

NextSeries ==
    /\ pc = "loop"
    /\ gi <= Len(series)
    /\ series_uid' = GenerateUid(uidctr)
    /\ uidctr' = uidctr + 1
    /\ fi' = 1
    /\ Continue("image")
    /\ UNCHANGED <<env, task, settings, series, si, gi, out, log>>

\* the end of main: the interpreter exits with status 0
Finish ==
    /\ pc = "loop"
    /\ gi > Len(series)
    /\ Exit(0, "none")
    /\ UNCHANGED <<env, task, settings, series, si, gi, fi, series_uid, uidctr, out, log>>

\* an exception of process_image that is caught, the loop going on
ImageFailureSkipped ==
    /\ fi' = fi + 1
    /\ Continue("image")
    /\ UNCHANGED <<uidctr, out, log>>

\* an exception of process_image propagates through main: nothing is saved
ImageFailure ==
    /\ Exit(1, "file")
    /\ UNCHANGED <<fi, uidctr, out, log>>

ProcessImage ==
    /\ pc = "image"
    /\ fi <= Len(series[gi].files)
    /\ LET file == series[gi].files[fi] IN
       IF ImageRaises(file)
       THEN ImageFailure
       ELSE LET ds == ReadFile(file)
                rec == [name |-> ProcessOutName(series_uid, file),
                        kind |-> "image",
                        SeriesInstanceUID |-> series_uid,
                        SOPInstanceUID |-> GenerateUid(uidctr),
                        SeriesNumber |-> ImageSeriesNumber(ds, settings),
                        sigma |-> settings.sigma,
                        src |-> file]
            IN /\ out' = SaveAs(out, rec)
               /\ log' = Append(log, [name |-> rec.name, kind |-> "image",
                                      src |-> file, item |-> gi])
               /\ uidctr' = uidctr + 1
               /\ fi' = fi + 1
               /\ Continue("image")
    /\ UNCHANGED <<env, task, settings, series, si, gi, series_uid>>

\* lines 286-289, after the last slice of the item
CreateSR ==
    /\ pc = "image"
    /\ fi > Len(series[gi].files)
    /\ IF series[gi].files # <<>>
       THEN LET file == SRReference(series[gi].files)
                sr_series_uid == GenerateUid(uidctr)
                new_sop_instance_uid == GenerateUid(uidctr + 1)
            IN
            IF SRRaises(file)
            THEN /\ Exit(1, "file")
                 /\ UNCHANGED <<gi, uidctr, out, log>>
            ELSE LET ref_ds == ReadFile(file)
                     rec == [name |-> SROutName(sr_series_uid, new_sop_instance_uid),
                             kind |-> "sr",
                             SeriesInstanceUID |-> sr_series_uid,
                             SOPInstanceUID |-> new_sop_instance_uid,
                             SeriesNumber |-> SRSeriesNumber(ref_ds, settings),
                             sigma |-> settings.sigma,
                             src |-> file]
                 IN /\ out' = SaveAs(out, rec)
                    /\ log' = Append(log, [name |-> rec.name, kind |-> "sr",
                                           src |-> file, item |-> gi])
                    \* sr_series_uid, new_sop_instance_uid, ImplementationClassUID
                    /\ uidctr' = uidctr + 3
                    /\ gi' = gi + 1
                    /\ Continue("loop")
       ELSE /\ gi' = gi + 1
            /\ Continue("loop")
            /\ UNCHANGED <<uidctr, out, log>>
    /\ UNCHANGED <<env, task, settings, series, si, fi, series_uid>>

Next ==
    \/ CheckArgs
    \/ CheckPaths
    \/ LoadTask
    \/ LoadSettings
    \/ ScanEntry
    \/ ScanDone
    \/ NextSeries
    \/ ProcessImage
    \/ CreateSR
    \/ Finish

Spec == Init /\ [][Next]_vars

----------------------------------------------------------------------------
(* Vocabulary of the properties, stated from the inputs of the run         *)

\* indices of the non-directory entries whose name ends in .dcm
Matching == {i \in 1..Len(dir) : EndsWith(dir[i].name, Dcm) /\ ~dir[i].is_dir}

\* the text of a name up to, not including, its first '#'
PrefixLen(name) ==
    CHOOSE n \in 0..Len(name) :
        /\ \A j \in 1..n : name[j] # Hash
        /\ n = Len(name) \/ name[n + 1] = Hash
SeriesPrefix(name) == SubSeq(name, 1, PrefixLen(name))

NumInputs == Cardinality(Matching)
NumGroups == Cardinality({SeriesPrefix(dir[i].name) : i \in Matching})
Images == {r \in out : r.kind = "image"}
Reports == {r \in out : r.kind = "sr"}
InputOf(file) == dir[CHOOSE i \in 1..Len(dir) : dir[i].name = file]

ArgsAndFoldersOk == argc >= 2 /\ in_exists /\ out_exists

\* the value a key has in process.settings of the descriptor, else dflt
DescriptorSetting(key, dflt) ==
    LET v == taskjson.val IN
    IF /\ taskjson.state = "ok"
       /\ IsDict(v)
       /\ "process" \in DOMAIN v.m
       /\ IsDict(v.m["process"])
       /\ "settings" \in DOMAIN v.m["process"].m
       /\ IsDict(v.m["process"].m["settings"])
       /\ key \in DOMAIN v.m["process"].m["settings"].m
    THEN v.m["process"].m["settings"].m[key].n
    ELSE dflt

\* the descriptor parses but lacks process.settings as nested objects
LacksShape ==
    LET v == taskjson.val IN
    /\ taskjson.state = "ok"
    /\ \/ ~IsDict(v)
       \/ "process" \notin DOMAIN v.m
       \/ ~IsDict(v.m["process"])
       \/ "settings" \notin DOMAIN v.m["process"].m
       \/ ~IsDict(v.m["process"].m["settings"])

\* the descriptor is an object whose process is absent, falsy, or an object
\* whose settings is absent or an object
WellShaped ==
    LET v == taskjson.val IN
    /\ taskjson.state = "ok"
    /\ IsDict(v)
    /\ \/ "process" \notin DOMAIN v.m
       \/ ~Truthy(v.m["process"])
       \/ /\ IsDict(v.m["process"])
          /\ \/ "settings" \notin DOMAIN v.m["process"].m
             \/ IsDict(v.m["process"].m["settings"])

\* names of the matching entries in discovery order
MatchNames ==
    LET sel == SelectSeq(dir, LAMBDA e : EndsWith(e.name, Dcm) /\ ~e.is_dir)
    IN [i \in 1..Len(sel) |-> sel[i].name]

PositionOf(names, nm) == CHOOSE i \in 1..Len(names) : names[i] = nm

IsFirstOfGroup(names, nm) ==
    \A j \in 1..Len(names) :
        SeriesPrefix(names[j]) = SeriesPrefix(nm) => PositionOf(names, nm) <= j

\* the first file of every group, groups in order of first discovery
Firsts == SelectSeq(MatchNames, LAMBDA nm : IsFirstOfGroup(MatchNames, nm))

GroupFiles(first) ==
    SelectSeq(MatchNames, LAMBDA nm : SeriesPrefix(nm) = SeriesPrefix(first))

\* a file on which process_image raises / a reference on which create_sr raises
ImageFaulty(file) ==
    \/ \A j \in 1..Len(file) : file[j] # Hash
    \/ InputOf(file).fault = "corrupt"
SRFaulty(file) == InputOf(file).fault \in {"corrupt", "nostudy"}

NoFileFails ==
    /\ \A i \in 1..Len(MatchNames) : ~ImageFaulty(MatchNames[i])
    /\ \A i \in 1..Len(Firsts) : ~SRFaulty(Firsts[i])

PastSettings ==
    \/ pc \in {"scan", "loop", "image"}
    \/ pc = "done" /\ error \in {"none", "file"}

----------------------------------------------------------------------------
(* Properties                                                              *)

CountsHold ==
    /\ Cardinality(Images) = NumInputs
    /\ Cardinality(Reports) = NumGroups
    /\ Cardinality(out) = NumInputs + NumGroups

\* C1 as stated: every run over an existing input folder with N .dcm files
\* of K prefixes ends with exactly N transformed files and K reports.
C1_EveryRunCounts ==
    (pc = "done" /\ ArgsAndFoldersOk) => CountsHold

\* C1 amended: every run that ends with exit status zero has written exactly
\* N transformed files and K reports, one per group; a run over a folder
\* without .dcm files writes nothing.
C1_CompletedRunCounts ==
    /\ (pc = "done" /\ exit_status = 0) => CountsHold
    /\ NumInputs = 0 => out = {}

C1_Witness ==
    /\ pc = "done" /\ exit_status = 0
    /\ NumInputs = 3 /\ NumGroups = 2
    /\ Cardinality(out) = 5

\* C2: a run that ends on a startup error (arguments missing, a folder
\* absent, task.json missing or unparsable) ends with a non-zero status and
\* has written no file.
C2_StartupErrorWritesNothing ==
    (pc = "done" /\ (~ArgsAndFoldersOk \/ taskjson.state # "ok"))
        => (exit_status # 0 /\ out = {} /\ log = <<>>)

C2_Witness ==
    /\ pc = "done" /\ ArgsAndFoldersOk
    /\ taskjson.state = "unparsable"
    /\ NumInputs >= 2
    /\ exit_status = 1

\* C3 as stated: with both arguments given and both folders present, main
\* ends with status zero (also without task descriptor).
C3_AlwaysExitsZero ==
    (pc = "done" /\ ArgsAndFoldersOk) => exit_status = 0

\* C3 amended: main ends with status zero whenever both arguments are given,
\* both folders exist, task.json parses to a well-shaped object and no file
\* fails, also with zero series; it ends with status zero only if the
\* arguments, the folders and a parsable task.json are there, so a folder
\* without task descriptor ends the run with a non-zero status.
C3_ExitsZeroWithDescriptor ==
    /\ (pc = "done" /\ ArgsAndFoldersOk /\ WellShaped /\ NoFileFails)
            => exit_status = 0
    /\ (pc = "done" /\ exit_status = 0)
            => (ArgsAndFoldersOk /\ taskjson.state = "ok")

C3_Witness ==
    /\ pc = "done" /\ exit_status = 0
    /\ series = <<>>
    /\ Len(dir) >= 2

\* C4: every written record carries the series number of its input file
\* plus the active series_offset, once; the report's input file is the
\* first file of its group.
C4_OffsetAppliedOnce ==
    \A r \in out :
        /\ r.SeriesNumber = InputOf(r.src).SeriesNumber
                            + DescriptorSetting("series_offset", DefaultOffset)
        /\ r.kind = "sr" => IsFirstOfGroup(MatchNames, r.src)

C4_Witness ==
    \E r \in Reports, q \in Images :
        /\ q.src = r.src
        /\ r.SeriesNumber = InputOf(r.src).SeriesNumber + 1000
        /\ Cardinality(Images) >= 2

\* C5 as stated: all files written in one iteration of the series loop share
\* their name's prefix, which differs between groups and from the input
\* series identifier.
C5_OnePrefixPerIteration ==
    \A i, j \in 1..Len(log) :
        /\ log[i].item = log[j].item
            => SeriesPrefix(log[i].name) = SeriesPrefix(log[j].name)
        /\ log[i].item # log[j].item
            => SeriesPrefix(log[i].name) # SeriesPrefix(log[j].name)
        /\ SeriesPrefix(log[i].name) # series[log[i].item].key

\* C5 amended: the transformed images written in one iteration share their
\* prefix; the report of that iteration has a second prefix of its own;
\* prefixes of different groups differ, and every prefix differs from the
\* input series identifiers.
C5_PrefixPerIterationAndKind ==
    \A i, j \in 1..Len(log) :
        /\ (log[i].item = log[j].item /\ log[i].kind = "image" /\ log[j].kind = "image")
            => SeriesPrefix(log[i].name) = SeriesPrefix(log[j].name)
        /\ (log[i].item = log[j].item /\ log[i].kind # log[j].kind)
            => SeriesPrefix(log[i].name) # SeriesPrefix(log[j].name)
        /\ log[i].item # log[j].item
            => SeriesPrefix(log[i].name) # SeriesPrefix(log[j].name)
        /\ \A g \in 1..Len(series) : SeriesPrefix(log[i].name) # series[g].key

C5_Witness ==
    /\ Len(log) = 5
    /\ \E i, j, k, l \in 1..Len(log) :
        /\ i # j /\ log[i].item = log[j].item
        /\ log[i].kind = "image" /\ log[j].kind = "image"
        /\ log[k].kind = "sr" /\ log[k].item = log[i].item
        /\ log[l].item # log[i].item

AfterScan == pc \in {"loop", "image"} \/ (pc = "done" /\ error \in {"none", "file"})

\* C6: the series dict is a partition of the non-directory entries ending in
\* .dcm: each of them is in exactly one group, keyed by the text before its
\* first '#', in discovery order; no group is empty and nothing else is in
\* a group.
C6_GroupingIsPartition ==
    AfterScan =>
        /\ \A i \in Matching :
            Cardinality({<<g, k>> \in (1..Len(series)) \X (1..Len(dir)) :
                            /\ k <= Len(series[g].files)
                            /\ series[g].files[k] = dir[i].name}) = 1
        /\ \A g \in 1..Len(series) :
            /\ series[g].files # <<>>
            /\ \A h \in 1..Len(series) : series[g].key = series[h].key => g = h
            /\ \A k \in 1..Len(series[g].files) :
                /\ \E i \in Matching : dir[i].name = series[g].files[k]
                /\ series[g].key = SeriesPrefix(series[g].files[k])
            /\ \A k, l \in 1..Len(series[g].files) :
                k < l => PositionOf(MatchNames, series[g].files[k])
                            < PositionOf(MatchNames, series[g].files[l])

C6_Witness ==
    /\ AfterScan
    /\ \E g \in 1..Len(series) : Len(series[g].files) >= 2
    /\ \E i \in 1..Len(dir) : dir[i].is_dir /\ EndsWith(dir[i].name, Dcm)
    /\ \E i \in 1..Len(dir) : ~EndsWith(dir[i].name, Dcm)

\* C7: the settings of a run are the defaults overridden by exactly the keys
\* of the descriptor's process.settings object, and every written file was
\* made with them.
C7_SettingsPrecedence ==
    PastSettings =>
        /\ settings.sigma = DescriptorSetting("sigma", DefaultSigma)
        /\ settings.series_offset = DescriptorSetting("series_offset", DefaultOffset)
        /\ \A r \in out :
            /\ r.sigma = DescriptorSetting("sigma", DefaultSigma)
            /\ r.SeriesNumber - InputOf(r.src).SeriesNumber
                    = DescriptorSetting("series_offset", DefaultOffset)

C7_Witness ==
    /\ pc = "done" /\ exit_status = 0
    /\ settings.sigma = 3 /\ settings.series_offset = DefaultOffset
    /\ Cardinality(out) >= 4

\* C8: the step on which process_image or create_sr raises ends the run with
\* a non-zero status and leaves the output folder as it was: nothing is
\* written for the failing record, nothing is written afterwards, and the
\* files written before stay.
C8_FailureStopsRun ==
    [][ (/\ pc = "image"
         /\ \/ /\ fi <= Len(series[gi].files)
               /\ ImageFaulty(series[gi].files[fi])
            \/ /\ fi > Len(series[gi].files)
               /\ SRFaulty(series[gi].files[1]))
        => (pc' = "done" /\ exit_status' # 0 /\ out' = out /\ log' = log) ]_vars

C8_Witness ==
    /\ pc = "done" /\ error = "file" /\ exit_status = 1
    /\ Cardinality(Reports) = 1
    /\ Cardinality(Images) = 2

RECURSIVE ExpectedWrites(_)
\* the writes of a complete run over the groups whose first files are fs
ExpectedWrites(fs) ==
    IF fs = <<>> THEN <<>>
    ELSE LET gf == GroupFiles(Head(fs)) IN
         [i \in 1..Len(gf) |-> <<"image", gf[i]>>]
            \o << <<"sr", Head(fs)>> >>
            \o ExpectedWrites(Tail(fs))

WritesSoFar == [i \in 1..Len(log) |-> <<log[i].kind, log[i].src>>]

\* C9: the writes of a run are, group after group in discovery order, one
\* transformed file per file of the group in discovery order and then one
\* report whose reference is the group's first file; the groups are fixed
\* and the scan is over before the first write.
C9_WriteOrder ==
    LET exp == ExpectedWrites(Firsts) IN
    /\ Len(log) <= Len(exp)
    /\ WritesSoFar = SubSeq(exp, 1, Len(log))
    /\ (pc = "done" /\ exit_status = 0) => Len(log) = Len(exp)
    /\ log # <<>> =>
        /\ si = Len(dir) + 1
        /\ Len(series) = Len(Firsts)
        /\ \A g \in 1..Len(series) : series[g].files = GroupFiles(Firsts[g])

C9_Witness ==
    /\ pc = "done" /\ exit_status = 0
    /\ Len(log) = 5
    /\ log[3].kind = "sr" /\ log[5].kind = "sr"

\* C10: a task.json that parses but lacks the nested process.settings shape
\* makes settings loading raise no error; the run goes on with both defaults.
C10_ShapeMismatchIgnored ==
    (LacksShape /\ pc \notin {"args", "paths", "load", "settings"})
        => (error # "settings" /\ settings = DefaultSettings)

====
